---------------------------- MODULE Spec2Model ----------------------------
(***************************************************************************)
(* A model of bot.py, the congressional-trades report bot: header          *)
(* resolution (_guess_header_map), table extraction and normalisation      *)
(* (_extract_from_html), pagination (scrape_smartinsider), the mirror      *)
(* loader (load_public_fallback), the two aggregations (group_daily,       *)
(* trend_30d) and the orchestration in main.                               *)
(*                                                                         *)
(* Texts are TLA+ strings handled character by character (Len, SubSeq,     *)
(* \o), so that case folding, whitespace handling, substring search and    *)
(* character filtering are computed the way the Python code computes them. *)
(* Column positions keep Python's 0-based numbering; -1 is "not found".    *)
(***************************************************************************)
EXTENDS Integers, Sequences, FiniteSets, TLC

VARIABLES
    pc,          \* position of the running operation
    th_texts,    \* _guess_header_map: its argument
    hi,          \* _guess_header_map: the loop index i
    out,         \* _guess_header_map: its result
    html,        \* _extract_from_html: the document, a sequence of tables
    trace,       \* _extract_from_html: per table, the locals ths / cmap / rows
    mirrors,     \* load_public_fallback: what the two mirror requests give
    df,          \* the dataset (a sequence of records, as a DataFrame's rows)
    visited,     \* scrape_smartinsider: pages visited
    since,       \* group_daily / trend_30d: the cutoff
    whitelist,   \* allow-list
    blacklist,   \* deny-list
    daily_agg,   \* group_daily's second result
    trend_agg,   \* trend_30d's second result
    log          \* main: what the run has done so far (a record of flags)

vars == <<pc, th_texts, hi, out, html, trace, mirrors, df, visited, since, whitelist,
          blacklist, daily_agg, trend_agg, log>>

---------------------------------------------------------------------------
(* Bounds of the model *)

MaxHeaders == 3
MaxRows == 1
MaxPages == 2
MaxRecords == 3

---------------------------------------------------------------------------
(* Character-level string functions *)

UpperChars == "ABCDEFGHIJKLMNOPQRSTUVWXYZ"
LowerChars == "abcdefghijklmnopqrstuvwxyz"

CharAt(s, i) == SubSeq(s, i, i)
Tail1(s) == SubSeq(s, 2, Len(s))

\* \s of the re module, restricted to the characters the inputs use
IsSpace(c) == c \in {" ", "\t", "\n"}

LowerChar(c) ==
    IF \E i \in 1..26 : CharAt(UpperChars, i) = c
    THEN CharAt(LowerChars, CHOOSE i \in 1..26 : CharAt(UpperChars, i) = c)
    ELSE c

UpperChar(c) ==
    IF \E i \in 1..26 : CharAt(LowerChars, i) = c
    THEN CharAt(UpperChars, CHOOSE i \in 1..26 : CharAt(LowerChars, i) = c)
    ELSE c

RECURSIVE StrLower(_)
StrLower(s) == IF s = "" THEN "" ELSE LowerChar(CharAt(s, 1)) \o StrLower(Tail1(s))

RECURSIVE StrUpper(_)
StrUpper(s) == IF s = "" THEN "" ELSE UpperChar(CharAt(s, 1)) \o StrUpper(Tail1(s))

RECURSIVE LStrip(_)
LStrip(s) == IF s # "" /\ IsSpace(CharAt(s, 1)) THEN LStrip(Tail1(s)) ELSE s

RECURSIVE RStrip(_)
RStrip(s) ==
    IF s # "" /\ IsSpace(CharAt(s, Len(s))) THEN RStrip(SubSeq(s, 1, Len(s) - 1)) ELSE s

StrStrip(s) == RStrip(LStrip(s))

\* re.sub(r"\s+", " ", t): every maximal run of whitespace becomes one space
RECURSIVE CollapseSpaces(_)
CollapseSpaces(s) ==
    IF s = "" THEN ""
    ELSE IF IsSpace(CharAt(s, 1))
         THEN " " \o CollapseSpaces(LStrip(s))
         ELSE CharAt(s, 1) \o CollapseSpaces(Tail1(s))

\* key in t
StrContains(key, t) ==
    \E o \in 1..(Len(t) - Len(key) + 1) : SubSeq(t, o, o + Len(key) - 1) = key

---------------------------------------------------------------------------
(* The texts of the model.  Every text a cell, a header or a mirror field  *)
(* can hold is listed here, and the character-level functions are          *)
(* tabulated over them once, so that a state's evaluation looks results up *)
(* instead of recomputing them character by character.                     *)

\* header texts as tables carry them: aliases in several cases and spacings,
\* a header matching two fields, a header matching none
HeaderTexts ==
    {"Ticker", " SYMBOL", "Senator", "Company Name", "Type",
     "Transaction \n Date", "Date  Filed", "Price"}

\* header rows of the tables of a document; the last has no column for type
HeaderRows ==
    {<<"Ticker", "Politician", "Type", "Filing Date">>,
     <<"Symbol", "Senator", "Transaction", "Filed">>,
     <<"Ticker", "Senator", "Price", "Filed">>}

\* data rows: a clean row, a row needing cleaning, a ticker that cleans to
\* nothing, an unparsable filing date with an empty name, a short row, and a
\* long row one of whose cells reads like a header
DataRows ==
    {<<"AAPL", "Jane Doe", "Buy", "2024-01-05">>,
     <<" msft ", "John Roe", "Sale", "2024-01-06">>,
     <<"123", "Jane Doe", "Purchase", "2024-01-05">>,
     <<"BRK.B!", "", "sell", "n/a">>,
     <<"AAPL", "Jane Doe">>,
     <<"TSLA", "John Roe", "Buy", "2024-01-06", "asset: stock">>}

\* records of the mirrors' JSON arrays, under the canonical names the rename
\* gives their keys (disclosure_date -> filing_date, asset_description ->
\* company, senator / representative -> name)
JsonRows ==
    {[ticker |-> "AAPL", name |-> "Jane Doe", company |-> "Apple Inc", type |-> "Purchase",
      filing_date |-> "2024-01-05", transaction_date |-> "2024-01-02"],
     [ticker |-> "--", name |-> "John Roe", company |-> "", type |-> "Sale (Full)",
      filing_date |-> "2024-01-05", transaction_date |-> "n/a"],
     [ticker |-> "msft", name |-> "John Roe", company |-> "", type |-> "Sale (Full)",
      filing_date |-> "n/a", transaction_date |-> "2024-01-02"],
     [ticker |-> "msft", name |-> " Jane Doe", company |-> "", type |-> "Purchase",
      filing_date |-> "2024-01-05", transaction_date |-> "2024-01-02"]}

\* raw rows behind the datasets handed to the aggregations: three tickers,
\* two named people and rows without a name, filing dates on three days
AggRows ==
    {[ticker |-> "AAPL", name |-> "Jane Doe", company |-> "", type |-> "Buy",
      filing_date |-> "2024-01-05", transaction_date |-> ""],
     [ticker |-> "AAPL", name |-> "John Roe", company |-> "", type |-> "Sale (Full)",
      filing_date |-> "2024-01-06", transaction_date |-> ""],
     [ticker |-> "msft", name |-> "Jane Doe", company |-> "", type |-> "Buy",
      filing_date |-> "2024-01-06", transaction_date |-> ""],
     [ticker |-> "msft", name |-> "", company |-> "", type |-> "Sale (Full)",
      filing_date |-> "2024-01-06", transaction_date |-> ""],
     [ticker |-> "msft", name |-> "John Roe", company |-> "", type |-> "Purchase",
      filing_date |-> "2024-01-05", transaction_date |-> ""],
     [ticker |-> "TSLA", name |-> "John Roe", company |-> "", type |-> "Buy",
      filing_date |-> "2023-12-01", transaction_date |-> ""],
     [ticker |-> "TSLA", name |-> "", company |-> "", type |-> "Buy",
      filing_date |-> "2024-01-06", transaction_date |-> ""]}

JsonTexts == UNION {{j[k] : k \in DOMAIN j} : j \in JsonRows \cup AggRows}


SeqsUpTo(S, n) == UNION {[1..m -> S] : m \in 0..n}

\* the thead variants of a table with header row h and data rows d: no thead
\* (the header is the first tr), an empty thead, the header inside the thead
TableVariants(h, d) ==
    {[has_thead |-> FALSE, head |-> <<>>, body |-> <<h>> \o d],
     [has_thead |-> TRUE,  head |-> <<>>, body |-> <<h>> \o d],
     [has_thead |-> TRUE,  head |-> <<h>>, body |-> d]}

RowTexts(R) == UNION {{r[i] : i \in 1..Len(r)} : r \in R}

RawTexts == HeaderTexts \cup RowTexts(HeaderRows) \cup RowTexts(DataRows) \cup JsonTexts

Texts == RawTexts \cup {StrStrip(t) : t \in RawTexts} \cup {""}

---------------------------------------------------------------------------
(* _guess_header_map *)

NotFound == -1

\* the keys of want, in the dict's iteration order
Fields == <<"ticker", "name", "company", "type", "filing_date", "transaction_date">>
FieldSet == {Fields[j] : j \in 1..Len(Fields)}

want ==
    [ticker           |-> {"ticker", "symbol"},
     name             |-> {"politician", "member", "representative", "senator", "name"},
     company          |-> {"company", "asset", "asset description"},
     type             |-> {"type", "transaction", "transaction type"},
     filing_date      |-> {"filing", "disclosure", "filed", "filing date",
                           "disclosure date", "date filed"},
     transaction_date |-> {"transaction date", "trade date", "date of transaction"}]

\* re.sub(r"\s+"," ",t).strip().lower()
NormalizeHeaderTab == [t \in Texts |-> StrLower(StrStrip(CollapseSpaces(t)))]
NormalizeHeader(t) == NormalizeHeaderTab[t]

\* any(key in t for key in keys), for a normalized header t
AnyKeyInTab ==
    [t \in {NormalizeHeaderTab[x] : x \in Texts} |->
        [k \in FieldSet |-> \E key \in want[k] : StrContains(key, t)]]
AnyKeyIn(k, t) == AnyKeyInTab[t][k]

\* the body without "out[k] == -1": the last matching header wins
FieldStep_LastMatch(o, k, t, i) == IF AnyKeyIn(k, t) THEN i ELSE o[k]

\* the body of the inner loop for field k, at header i (0-based) with
\* normalized text t: if out[k] == -1 and any(key in t for key in keys): out[k]=i
FieldStep(o, k, t, i) == IF o[k] = NotFound /\ AnyKeyIn(k, t) THEN i ELSE o[k]

\* the inner loop with a set of claimed columns: a field takes header i only
\* if no field before it in the dict's order has taken it
ClaimStep(o, k, t, i) ==
    IF o[k] = NotFound /\ AnyKeyIn(k, t) /\ \A k2 \in DOMAIN o : o[k2] # i
    THEN [o EXCEPT ![k] = i] ELSE o

FieldLoop_ClaimedColumns(o, t, i) ==
    LET o1 == ClaimStep(o, "ticker", t, i)
        o2 == ClaimStep(o1, "name", t, i)
        o3 == ClaimStep(o2, "company", t, i)
        o4 == ClaimStep(o3, "type", t, i)
        o5 == ClaimStep(o4, "filing_date", t, i)
    IN  ClaimStep(o5, "transaction_date", t, i)

\* the inner loop "for k,keys in want.items()", in the dict's order; an
\* iteration reads and writes out[k] alone
FieldLoop(o, t, i) ==
    [ticker           |-> FieldStep(o, "ticker", t, i),
     name             |-> FieldStep(o, "name", t, i),
     company          |-> FieldStep(o, "company", t, i),
     type             |-> FieldStep(o, "type", t, i),
     filing_date      |-> FieldStep(o, "filing_date", t, i),
     transaction_date |-> FieldStep(o, "transaction_date", t, i)]

\* the outer loop "for i,t in enumerate(th)" from header i (0-based) on
RECURSIVE HeaderLoop(_, _, _)
HeaderLoop(o, th, i) ==
    IF i >= Len(th) THEN o
    ELSE HeaderLoop(FieldLoop(o, th[i + 1], i), th, i + 1)

_guess_header_map(texts) ==
    LET th == [i \in 1..Len(texts) |-> NormalizeHeader(texts[i])]
    IN  HeaderLoop([k \in FieldSet |-> NotFound], th, 0)

---------------------------------------------------------------------------
(* Record normalisation: the "clean" block of _extract_from_html, repeated *)
(* in load_public_fallback                                                 *)

\* NaT, the null timestamp to_datetime(errors="coerce") gives what it cannot parse
NaT == -1

\* .str.upper().str.replace(r"[^A-Z.]", "", regex=True)
RECURSIVE KeepTickerChars(_)
KeepTickerChars(s) ==
    IF s = "" THEN ""
    ELSE LET c == CharAt(s, 1)
         IN  (IF c = "." \/ \E i \in 1..26 : CharAt(UpperChars, i) = c THEN c ELSE "")
             \o KeepTickerChars(Tail1(s))

CleanTickerTab == [t \in Texts |-> KeepTickerChars(StrUpper(t))]
CleanTicker(t) == CleanTickerTab[t]

Digits == "0123456789"
IsDigit(c) == \E i \in 1..10 : CharAt(Digits, i) = c
DigitVal(c) == (CHOOSE i \in 1..10 : CharAt(Digits, i) = c) - 1

RECURSIVE DigitsVal(_)
DigitsVal(s) ==
    IF s = "" THEN 0 ELSE 10 * DigitsVal(SubSeq(s, 1, Len(s) - 1)) + DigitVal(CharAt(s, Len(s)))

DaysInMonth(y, m) ==
    IF m = 2 THEN (IF (y % 4 = 0 /\ y % 100 # 0) \/ y % 400 = 0 THEN 29 ELSE 28)
    ELSE IF m \in {4, 6, 9, 11} THEN 30 ELSE 31

\* pd.to_datetime(..., errors="coerce") on the texts of the model: an ISO date
\* YYYY-MM-DD of the calendar parses to its day, written as the number YYYYMMDD
\* (timestamps compare as these numbers do); every other text of the model
\* ("", "n/a", a header text) is unparsable and becomes NaT
ParseDateChars(s) ==
    IF /\ Len(s) = 10
       /\ CharAt(s, 5) = "-" /\ CharAt(s, 8) = "-"
       /\ \A i \in {1, 2, 3, 4, 6, 7, 9, 10} : IsDigit(CharAt(s, i))
    THEN LET y == DigitsVal(SubSeq(s, 1, 4))
             m == DigitsVal(SubSeq(s, 6, 7))
             d == DigitsVal(SubSeq(s, 9, 10))
         IN  IF y >= 1 /\ m \in 1..12 /\ d >= 1 /\ d <= DaysInMonth(y, m)
             THEN y * 10000 + m * 100 + d
             ELSE NaT
    ELSE NaT

ParseDateTab == [t \in Texts |-> ParseDateChars(t)]
ParseDate(t) == ParseDateTab[t]

StripTab == [t \in Texts |-> StrStrip(t)]
Strip(t) == StripTab[t]

LowerTab == [t \in Texts |-> StrLower(t)]
Lower(t) == LowerTab[t]

\* .str.contains(r"buy|purchase", case=False) and .str.contains(r"sell|sale", case=False)
IsBuyTab ==
    [t \in Texts |-> StrContains("buy", StrLower(t)) \/ StrContains("purchase", StrLower(t))]
IsSellTab ==
    [t \in Texts |-> StrContains("sell", StrLower(t)) \/ StrContains("sale", StrLower(t))]

\* one row of the frame after the cleaning statements
CleanRecord(raw) ==
    LET ty == Strip(raw.type)
    IN  [ticker           |-> CleanTicker(raw.ticker),
         name             |-> Strip(raw.name),
         company          |-> Strip(raw.company),
         type             |-> ty,
         filing_date      |-> ParseDate(raw.filing_date),
         transaction_date |-> ParseDate(raw.transaction_date),
         is_buy           |-> IsBuyTab[ty],
         is_sell          |-> IsSellTab[ty]]

\* the filter without its filing_date condition
KeepRecord_TickerOnly(r) == r.ticker # ""

\* (df["ticker"]!="") & (~df["filing_date"].isna())
KeepRecord(r) == r.ticker # "" /\ r.filing_date # NaT

\* df[mask]
FilterRecords(recs) == SelectSeq(recs, KeepRecord)

\* DataFrame.drop_duplicates(): the first of equal rows is kept, in order
RECURSIVE DropDuplicatesFrom(_, _)
DropDuplicatesFrom(recs, kept) ==
    IF recs = <<>> THEN kept
    ELSE DropDuplicatesFrom(Tail(recs),
            IF \E i \in 1..Len(kept) : kept[i] = Head(recs)
            THEN kept ELSE Append(kept, Head(recs)))

drop_duplicates(recs) == DropDuplicatesFrom(recs, <<>>)

\* the cleaning, filtering and de-duplication of a frame of raw rows
Normalize(raws) ==
    drop_duplicates(FilterRecords([i \in 1..Len(raws) |-> CleanRecord(raws[i])]))

---------------------------------------------------------------------------
(* _extract_from_html.  A document is the sequence of its tables; a table  *)
(* is [has_thead, head, body]: whether it has a thead element, the rows    *)
(* inside it, and the rows outside it.  A row is the sequence of its       *)
(* cells' texts, each cell holding one text node.                          *)

HeaderCellLimit == 20

Take(seq, n) == SubSeq(seq, 1, IF Len(seq) < n THEN Len(seq) ELSE n)

RECURSIVE Concat(_)
Concat(seqs) == IF seqs = <<>> THEN <<>> ELSE Head(seqs) \o Concat(Tail(seqs))

SetMax(S) == CHOOSE x \in S : \A y \in S : x >= y

\* tbl.find_all("tr")
AllRows(tbl) == tbl.head \o tbl.body

\* [x.get_text(strip=True) for x in cells]
CellTexts(cells) == [i \in 1..Len(cells) |-> Strip(cells[i])]

\* head = tbl.find("thead") or tbl; head.find_all(["th","td"], limit=20):
\* the first cells, in document order, of the thead when there is one and of
\* the whole table when there is none; the first row's cells when that is empty
HeaderCells(tbl) ==
    LET head  == IF tbl.has_thead THEN tbl.head ELSE AllRows(tbl)
        first == CellTexts(Take(Concat(head), HeaderCellLimit))
    IN  IF first # <<>> THEN first
        ELSE IF AllRows(tbl) # <<>> THEN CellTexts(AllRows(tbl)[1])
        ELSE <<>>

Required == {"ticker", "name", "type"}

\* any(cmap[k]==-1 for k in ("ticker","name","type"))
Unresolved(cmap) == \E k \in Required : cmap[k] = NotFound

\* max(cmap.values())
MaxIndex(cmap) == SetMax({cmap[k] : k \in FieldSet})

\* the rows kept by "if len(tds) <= max(cmap.values()): continue"
LongRows(tbl, cmap) ==
    LET keep(r) == Len(r) > MaxIndex(cmap)
        kept    == SelectSeq(AllRows(tbl), keep)
    IN  [i \in 1..Len(kept) |-> CellTexts(kept[i])]

LowerAll(cells) == [i \in 1..Len(cells) |-> Lower(cells[i])]

\* if rows and [x.lower() for x in rows[0]] == [x.lower() for x in ths]: rows=rows[1:]
DropRepeatedHeader(rows, ths) ==
    IF rows # <<>> /\ LowerAll(rows[1]) = LowerAll(ths) THEN Tail(rows) ELSE rows

\* pick(k) for one row: r[i] if 0<=i<len(r) else ""
Pick(cmap, r, k) == IF 0 <= cmap[k] /\ cmap[k] < Len(r) THEN r[cmap[k] + 1] ELSE ""

RawRecord(cmap, r) == [k \in FieldSet |-> Pick(cmap, r, k)]

NoMap == [k \in FieldSet |-> NotFound]

\* the iteration without "if any(cmap[k]==-1 ...): continue"
ExtractTable_NoRequiredCheck(tbl) ==
    LET ths == HeaderCells(tbl)
    IN  IF ths = <<>>
        THEN [ths |-> ths, cmap |-> NoMap, rows |-> <<>>, frame |-> <<>>]
        ELSE LET cmap == _guess_header_map(ths)
                 rows == DropRepeatedHeader(LongRows(tbl, cmap), ths)
             IN  [ths |-> ths, cmap |-> cmap, rows |-> rows,
                  frame |-> [i \in 1..Len(rows) |-> RawRecord(cmap, rows[i])]]

\* one iteration of "for tbl in soup.find_all('table')": the locals ths, cmap
\* and rows, and the frame appended for the table (empty when the iteration
\* ends in a continue)
ExtractTable(tbl) ==
    LET ths == HeaderCells(tbl)
    IN  IF ths = <<>>
        THEN [ths |-> ths, cmap |-> NoMap, rows |-> <<>>, frame |-> <<>>]
        ELSE LET cmap == _guess_header_map(ths)
             IN  IF Unresolved(cmap)
                 THEN [ths |-> ths, cmap |-> cmap, rows |-> <<>>, frame |-> <<>>]
                 ELSE LET rows == DropRepeatedHeader(LongRows(tbl, cmap), ths)
                      IN  [ths |-> ths, cmap |-> cmap, rows |-> rows,
                           frame |-> [i \in 1..Len(rows) |-> RawRecord(cmap, rows[i])]]

\* pd.concat(frames) followed by the cleaning block
_extract_from_html(doc) ==
    Normalize(Concat([i \in 1..Len(doc) |-> ExtractTable(doc[i]).frame]))

---------------------------------------------------------------------------
(* load_public_fallback.  mirrors holds, for each of the two urls in turn, *)
(* [ok |-> FALSE] when the request or its decoding raised, and otherwise   *)
(* [ok |-> TRUE, namekey, rows]: the JSON array's records and the key      *)
(* ("senator" or "representative") under which they carry the name.        *)

LoadedFrames(ms) == SelectSeq(ms, LAMBDA m : m.ok)

\* the column labels holding names after the rename: one per distinct name key
\* among the frames that have records (an empty array gives a frame without
\* columns)
NameColumns(frames) ==
    {frames[i].namekey : i \in {j \in 1..Len(frames) : frames[j].rows # <<>>}}

\* the statements after the rename raise when a column they index is missing
\* (no frame has a record: KeyError) or is there twice (both name keys were
\* renamed to "name", so df["name"] is a DataFrame without .str: AttributeError)
FallbackRaises(ms) ==
    LET frames == LoadedFrames(ms)
    IN  frames # <<>> /\ Cardinality(NameColumns(frames)) # 1

load_public_fallback(ms) ==
    LET frames == LoadedFrames(ms)
    IN  IF frames = <<>> THEN <<>>
        ELSE Normalize(Concat([i \in 1..Len(frames) |-> frames[i].rows]))

---------------------------------------------------------------------------
(* group_daily and trend_30d *)

\* the characters of the model's texts in code point order
CodePoints == " !()-./0123456789:ABCDEFGHIJKLMNOPQRSTUVWXYZabcdefghijklmnopqrstuvwxyz"
Ord(c) == CHOOSE i \in 1..Len(CodePoints) : CharAt(CodePoints, i) = c

\* a < b for Python strings
RECURSIVE StrLess(_, _)
StrLess(a, b) ==
    IF b = "" THEN FALSE
    ELSE IF a = "" THEN TRUE
    ELSE IF CharAt(a, 1) = CharAt(b, 1) THEN StrLess(Tail1(a), Tail1(b))
    ELSE Ord(CharAt(a, 1)) < Ord(CharAt(b, 1))

\* sorted(S) for a set of strings
RECURSIVE SortedStrings(_)
SortedStrings(S) ==
    IF S = {} THEN <<>>
    ELSE LET m == CHOOSE x \in S : \A y \in S \ {x} : StrLess(x, y)
         IN  <<m>> \o SortedStrings(S \ {m})

InList(x, list) == \E i \in 1..Len(list) : list[i] = x

\* the deny-list applied only when there is no allow-list
ApplyLists_DenyOnlyWithoutAllow(d, wl, bl) ==
    LET allowed(r) == InList(r.ticker, wl)
        denied(r)  == ~InList(r.ticker, bl)
    IN  IF wl # <<>> THEN SelectSeq(d, allowed)
        ELSE IF bl # <<>> THEN SelectSeq(d, denied) ELSE d

\* if whitelist: d=d[d["ticker"].isin(whitelist)]
\* if blacklist: d=d[~d["ticker"].isin(blacklist)]
ApplyLists(d, wl, bl) ==
    LET allowed(r) == InList(r.ticker, wl)
        denied(r)  == ~InList(r.ticker, bl)
        d1 == IF wl # <<>> THEN SelectSeq(d, allowed) ELSE d
    IN  IF bl # <<>> THEN SelectSeq(d1, denied) ELSE d1

\* df[df["filing_date"]>=since] and the two list filters
Window(data, cutoff, wl, bl) ==
    LET recent(r) == r.filing_date >= cutoff
    IN  ApplyLists(SelectSeq(data, recent), wl, bl)

\* the groups of groupby("ticker"): the tickers present, in sorted order
GroupKeys(d) == SortedStrings({d[i].ticker : i \in 1..Len(d)})

Group(d, t) == SelectSeq(d, LAMBDA r : r.ticker = t)

\* lambda s: sorted(set([x for x in s if isinstance(x,str)])): every name of the
\* column is a str after the cleaning's astype(str)
Politicians(g) == SortedStrings({g[i].name : i \in 1..Len(g)})

CountTrue(g, f) == Cardinality({i \in 1..Len(g) : g[i][f]})

\* one row of group_daily's agg, with the people column added after it
DailyRow(d, t) ==
    LET g == Group(d, t)
    IN  [ticker      |-> t,
         trades      |-> Len(g),
         politicians |-> Politicians(g),
         buys        |-> CountTrue(g, "is_buy"),
         sells       |-> CountTrue(g, "is_sell"),
         people      |-> Len(Politicians(g))]

\* one row of trend_30d's trend, with the total_trades column added after it
TrendRow(t_, t) ==
    LET g == Group(t_, t)
    IN  [ticker       |-> t,
         buys         |-> CountTrue(g, "is_buy"),
         sells        |-> CountTrue(g, "is_sell"),
         politicians  |-> Politicians(g),
         total_trades |-> CountTrue(g, "is_buy") + CountTrue(g, "is_sell")]

\* the order on the first key alone
Before_FirstKeyOnly(a, b, k1, k2) == a[k1] > b[k1]

\* sort_values([k1,k2], ascending=[False,False]): rows in descending order of
\* k1 then k2, rows equal on both keeping their order (a stable sort, written
\* as the insertion of each row after the rows that do not come after it)
Before(a, b, k1, k2) == a[k1] > b[k1] \/ (a[k1] = b[k1] /\ a[k2] > b[k2])

RECURSIVE InsertRow(_, _, _, _)
InsertRow(sorted, row, k1, k2) ==
    IF sorted = <<>> THEN <<row>>
    ELSE IF Before(row, Head(sorted), k1, k2)
         THEN <<row>> \o sorted
         ELSE <<Head(sorted)>> \o InsertRow(Tail(sorted), row, k1, k2)

RECURSIVE SortValuesFrom(_, _, _, _)
SortValuesFrom(rows, sorted, k1, k2) ==
    IF rows = <<>> THEN sorted
    ELSE SortValuesFrom(Tail(rows), InsertRow(sorted, Head(rows), k1, k2), k1, k2)

sort_values(rows, k1, k2) == SortValuesFrom(rows, <<>>, k1, k2)

\* the second value group_daily returns
group_daily(data, cutoff, wl, bl) ==
    LET d    == Window(data, cutoff, wl, bl)
        keys == GroupKeys(d)
    IN  sort_values([i \in 1..Len(keys) |-> DailyRow(d, keys[i])], "people", "trades")

\* the second value trend_30d returns
trend_30d(data, cutoff, wl, bl) ==
    LET t_   == Window(data, cutoff, wl, bl)
        keys == GroupKeys(t_)
    IN  sort_values([i \in 1..Len(keys) |-> TrendRow(t_, keys[i])], "buys", "total_trades")

\* the values of the variables an operation does not use
IdleHeader == th_texts = <<>> /\ hi = 0 /\ out = [k \in FieldSet |-> NotFound]
IdleExtract == html = <<>> /\ trace = <<>>
IdleFallback == mirrors = <<>>
IdleScrape == df = <<>> /\ visited = 0
IdleAgg ==
    /\ since = 0 /\ whitelist = <<>> /\ blacklist = <<>>
    /\ daily_agg = <<>> /\ trend_agg = <<>>
IdleMain == log = [k \in {} |-> FALSE]

---------------------------------------------------------------------------
(* The two sources of a dataset, each run on every input of the model *)

Tables ==
    UNION {TableVariants(h, d) : h \in HeaderRows, d \in SeqsUpTo(DataRows, MaxRows)}

\* documents of no, one and two tables
Docs == {<<>>} \cup {<<t>> : t \in Tables} \cup {<<t, u>> : t \in Tables, u \in Tables}

Mirrors ==
    {[ok |-> FALSE]} \cup
    {[ok |-> TRUE, namekey |-> n, rows |-> r] :
        n \in {"senator", "representative"}, r \in SeqsUpTo(JsonRows, MaxRows)}

InitSources ==
    /\ \/ pc = "extract" /\ html \in Docs /\ mirrors = <<>>
       \/ pc = "fallback" /\ html = <<>> /\ mirrors \in {<<m, n>> : m \in Mirrors, n \in Mirrors}
    /\ trace = <<>>
    /\ IdleHeader /\ IdleScrape /\ IdleAgg /\ IdleMain

\* one iteration of "for tbl in soup.find_all('table')"
ExtractTableStep ==
    /\ pc = "extract"
    /\ Len(trace) < Len(html)
    /\ trace' = Append(trace, ExtractTable(html[Len(trace) + 1]))
    /\ UNCHANGED <<pc, th_texts, hi, out, html, mirrors, df, visited, since, whitelist,
                   blacklist, daily_agg, trend_agg, log>>

\* the statements after the loop: concat, clean, filter, drop_duplicates, return
ExtractFinish ==
    /\ pc = "extract"
    /\ Len(trace) = Len(html)
    /\ df' = Normalize(Concat([i \in 1..Len(trace) |-> trace[i].frame]))
    /\ pc' = "extract_done"
    /\ UNCHANGED <<th_texts, hi, out, html, trace, mirrors, visited, since, whitelist,
                   blacklist, daily_agg, trend_agg, log>>

LoadPublicFallbackReturns ==
    /\ pc = "fallback"
    /\ ~FallbackRaises(mirrors)
    /\ df' = load_public_fallback(mirrors)
    /\ pc' = "fallback_done"
    /\ UNCHANGED <<th_texts, hi, out, html, trace, mirrors, visited, since, whitelist,
                   blacklist, daily_agg, trend_agg, log>>

LoadPublicFallbackRaises ==
    /\ pc = "fallback"
    /\ FallbackRaises(mirrors)
    /\ pc' = "fallback_raised"
    /\ UNCHANGED <<th_texts, hi, out, html, trace, mirrors, df, visited, since, whitelist,
                   blacklist, daily_agg, trend_agg, log>>

NextSources ==
    \/ ExtractTableStep
    \/ ExtractFinish
    \/ LoadPublicFallbackReturns
    \/ LoadPublicFallbackRaises

SpecSources == InitSources /\ [][NextSources]_vars

OnlyTickerChars(s) ==
    \A j \in 1..Len(s) :
        CharAt(s, j) = "." \/ \E i \in 1..26 : CharAt(UpperChars, i) = CharAt(s, j)

\* C1: in the dataset either source returns, every record has a non-empty
\* ticker made of the characters A-Z and "." only, and a filing_date that is
\* not null.
C1_NoEmptyTickerNoNullFiling ==
    pc \in {"extract_done", "fallback_done"} =>
        \A i \in 1..Len(df) :
            /\ df[i].ticker # ""
            /\ OnlyTickerChars(df[i].ticker)
            /\ df[i].filing_date # NaT

\* C1's case: an extraction has returned records, and among the raw rows it
\* read are one whose ticker cleans to nothing and one whose filing date is
\* unparsable
C1_Witness ==
    /\ pc = "extract_done"
    /\ df # <<>>
    /\ \E i \in 1..Len(trace) : \E j \in 1..Len(trace[i].frame) :
          CleanTicker(trace[i].frame[j].ticker) = ""
    /\ \E i \in 1..Len(trace) : \E j \in 1..Len(trace[i].frame) :
          /\ CleanTicker(trace[i].frame[j].ticker) # ""
          /\ ParseDate(trace[i].frame[j].filing_date) = NaT

\* C2: a table whose header map leaves ticker, name or type unresolved
\* appends no row to the frames and is the origin of no record of the
\* returned dataset, and a table whose header map resolves all three has
\* every row after its first that is long enough and passes the filter in
\* the returned dataset, whatever the other tables of the document are.
C2_MalformedTableSkippedAlone ==
    /\ \A i \in 1..Len(trace) : Unresolved(trace[i].cmap) => trace[i].frame = <<>>
    /\ pc = "extract_done" =>
          /\ \A n \in 1..Len(df) :
                \E i \in 1..Len(html) :
                    /\ ~Unresolved(trace[i].cmap)
                    /\ \E j \in 1..Len(AllRows(html[i])) :
                          df[n] = CleanRecord(RawRecord(trace[i].cmap,
                                                        CellTexts(AllRows(html[i])[j])))
          /\ \A i \in 1..Len(html) :
                ~Unresolved(trace[i].cmap) =>
                    \A j \in 2..Len(AllRows(html[i])) :
                        LET r   == AllRows(html[i])[j]
                            rec == CleanRecord(RawRecord(trace[i].cmap, CellTexts(r)))
                        IN  (Len(r) > MaxIndex(trace[i].cmap) /\ KeepRecord(rec))
                                => \E n \in 1..Len(df) : df[n] = rec

\* C2's case: a document of two tables of which the first leaves type
\* unresolved and has a data row, and the second resolves all three fields
\* and is the origin of the returned records
C2_Witness ==
    /\ pc = "extract_done"
    /\ Len(html) = 2
    /\ trace[1].cmap["ticker"] # NotFound /\ trace[1].cmap["type"] = NotFound
    /\ Len(AllRows(html[1])) >= 2
    /\ ~Unresolved(trace[2].cmap)
    /\ df # <<>>

\* C9: the header texts of a table without a thead are the cells of its
\* first row, at most 20 of them.
C9_HeaderFromFirstRowOnly ==
    \A i \in 1..Len(trace) :
        ~html[i].has_thead =>
            trace[i].ths = CellTexts(Take(AllRows(html[i])[1], HeaderCellLimit))

---------------------------------------------------------------------------
(* The two aggregations, each run on every dataset, cutoff and pair of     *)
(* lists of the model                                                      *)

\* canonical records, as the cleaning makes them
AggRecords == {CleanRecord(r) : r \in AggRows}

\* the cutoffs main derives from the current time: the daily one and the
\* trend one, as timestamps at midnight
Cutoffs ==
    {[daily |-> 20240106, trend |-> 20231207],
     [daily |-> 20240102, trend |-> 20231201]}

Whitelists == {<<>>, <<"AAPL", "TSLA">>, <<"MSFT">>}
Blacklists == {<<>>, <<"TSLA">>, <<"AAPL", "MSFT">>}

InitAgg ==
    /\ pc = "group_daily"
    /\ df \in SeqsUpTo(AggRecords, MaxRecords)
    /\ visited = 0
    /\ since \in Cutoffs
    /\ whitelist \in Whitelists
    /\ blacklist \in Blacklists
    /\ daily_agg = <<>> /\ trend_agg = <<>>
    /\ IdleHeader /\ IdleExtract /\ IdleFallback /\ IdleMain

GroupDaily ==
    /\ pc = "group_daily"
    /\ daily_agg' = group_daily(df, since.daily, whitelist, blacklist)
    /\ pc' = "trend_30d"
    /\ UNCHANGED <<th_texts, hi, out, html, trace, mirrors, df, visited, since,
                   whitelist, blacklist, trend_agg, log>>

Trend30d ==
    /\ pc = "trend_30d"
    /\ trend_agg' = trend_30d(df, since.trend, whitelist, blacklist)
    /\ pc' = "agg_done"
    /\ UNCHANGED <<th_texts, hi, out, html, trace, mirrors, df, visited, since,
                   whitelist, blacklist, daily_agg, log>>

NextAgg == GroupDaily \/ Trend30d

SpecAgg == InitAgg /\ [][NextAgg]_vars

\* the tickers an aggregation over the records filed since cutoff may list
Eligible(cutoff) ==
    {t \in {df[i].ticker : i \in 1..Len(df)} :
        /\ \E i \in 1..Len(df) : df[i].ticker = t /\ df[i].filing_date >= cutoff
        /\ whitelist # <<>> => InList(t, whitelist)
        /\ ~InList(t, blacklist)}

RowTickers(agg) == {agg[i].ticker : i \in 1..Len(agg)}

\* C6: the tickers of group_daily's rows, and of trend_30d's, are exactly the
\* tickers that have a record filed at or after the cutoff, are in the
\* allow-list when it is non-empty, and are not in the deny-list; so a ticker
\* in both lists never appears and an empty allow-list restricts nothing.
C6_ListsAndCutoff ==
    /\ pc \in {"trend_30d", "agg_done"} => RowTickers(daily_agg) = Eligible(since.daily)
    /\ pc = "agg_done" => RowTickers(trend_agg) = Eligible(since.trend)

\* C6's case: both aggregations have run with both lists non-empty and
\* sharing a ticker that has a record in the window, and rows remain
C6_Witness ==
    /\ pc = "agg_done"
    /\ \E t \in {df[i].ticker : i \in 1..Len(df)} :
          /\ InList(t, whitelist) /\ InList(t, blacklist)
          /\ \E i \in 1..Len(df) : df[i].ticker = t /\ df[i].filing_date >= since.daily
    /\ daily_agg # <<>> /\ trend_agg # <<>>
    /\ \E i \in 1..Len(df) : df[i].filing_date < since.daily

\* the in-window records of ticker t that pass the lists
InWindow(t, cutoff) ==
    {i \in 1..Len(df) :
        /\ df[i].ticker = t /\ df[i].filing_date >= cutoff
        /\ whitelist # <<>> => InList(t, whitelist)
        /\ ~InList(t, blacklist)}

\* C7: in group_daily's rows, people never increases from a row to the next,
\* and where two adjacent rows have equal people, trades does not increase;
\* trades is the number of in-window records of the row's ticker.
C7_DailySorted ==
    pc \in {"trend_30d", "agg_done"} =>
        /\ \A i \in 1..(Len(daily_agg) - 1) :
              /\ daily_agg[i].people >= daily_agg[i + 1].people
              /\ daily_agg[i].people = daily_agg[i + 1].people
                    => daily_agg[i].trades >= daily_agg[i + 1].trades
        /\ \A i \in 1..Len(daily_agg) :
              daily_agg[i].trades = Cardinality(InWindow(daily_agg[i].ticker, since.daily))

\* C7's case: two adjacent rows with equal people whose order trades decides,
\* the sort having moved the ticker that comes later in the grouping order
\* ahead of the earlier one
C7_Witness ==
    /\ pc = "agg_done"
    /\ \E i \in 1..(Len(daily_agg) - 1) :
          /\ daily_agg[i].people = daily_agg[i + 1].people
          /\ daily_agg[i].trades > daily_agg[i + 1].trades
          /\ StrLess(daily_agg[i + 1].ticker, daily_agg[i].ticker)

\* C8: in every row of group_daily, politicians is the sorted list of the
\* distinct non-empty names of the ticker's in-window records and people is
\* its length; a record with an empty name adds nothing to either.
C8_NonEmptyNamesOnly ==
    pc \in {"trend_30d", "agg_done"} =>
        \A i \in 1..Len(daily_agg) :
            LET names == {df[j].name : j \in InWindow(daily_agg[i].ticker, since.daily)}
            IN  /\ daily_agg[i].politicians = SortedStrings(names \ {""})
                /\ daily_agg[i].people = Cardinality(names \ {""})

---------------------------------------------------------------------------
(* main, with scrape_smartinsider run page by page.  log records what the  *)
(* run has done: how the scrape ended, whether the fallback loader was     *)
(* called, the message of a SystemExit, and which outputs were produced.   *)

PageTable(h, d) == [has_thead |-> TRUE, head |-> <<h>>, body |-> d]

\* the documents page.content() may give: pages sharing a row, a page of
\* two tables of which the first lacks a type column, pages whose rows are
\* all dropped, a page without a table
PageDocs ==
    {<<PageTable(<<"Ticker", "Politician", "Type", "Filing Date">>,
                 <<<<"AAPL", "Jane Doe", "Buy", "2024-01-05">>>>)>>,
     <<PageTable(<<"Ticker", "Politician", "Type", "Filing Date">>,
                 << <<"AAPL", "Jane Doe", "Buy", "2024-01-05">>,
                    <<" msft ", "John Roe", "Sale", "2024-01-06">> >>)>>,
     <<PageTable(<<"Ticker", "Senator", "Price", "Filed">>,
                 <<<<"AAPL", "Jane Doe", "Buy", "2024-01-05">>>>),
       PageTable(<<"Symbol", "Senator", "Transaction", "Filed">>,
                 <<<<"TSLA", "John Roe", "Buy", "2024-01-06", "asset: stock">>>>)>>,
     <<PageTable(<<"Symbol", "Senator", "Transaction", "Filed">>,
                 << <<"123", "Jane Doe", "Purchase", "2024-01-05">>,
                    <<"BRK.B!", "", "sell", "n/a">> >>)>>,
     <<>>}

\* df.empty taken to be false always
DfEmpty_Never(d) == FALSE

\* df.empty
DfEmpty(d) == d = <<>>

InitMain ==
    /\ pc = "main"
    /\ html = <<>> /\ trace = <<>> /\ mirrors = <<>>
    /\ df = <<>> /\ visited = 0
    /\ since \in Cutoffs
    /\ whitelist \in {<<>>, <<"AAPL", "TSLA">>}
    /\ blacklist \in {<<>>, <<"TSLA">>}
    /\ daily_agg = <<>> /\ trend_agg = <<>>
    /\ \E w \in BOOLEAN :
          log = [webhook |-> w, scrape |-> "pending", fallback_called |-> FALSE,
                 exit_msg |-> "", aggregated |-> FALSE, report_written |-> FALSE,
                 csv_written |-> FALSE, posted |-> FALSE]
    /\ IdleHeader

\* scrape_smartinsider up to "visited=1": the first page is loaded and extracted
ScrapeFirstPage ==
    /\ pc = "main"
    /\ \E doc \in PageDocs :
          /\ html' = doc
          /\ df' = _extract_from_html(doc)
    /\ visited' = 1
    /\ pc' = "scrape_loop"
    /\ UNCHANGED <<th_texts, hi, out, trace, mirrors, since, whitelist, blacklist,
                   daily_agg, trend_agg, log>>

\* one iteration of "while visited<max_pages" that reaches "visited += 1";
\* MaxPages stands for max_pages
ScrapeNextPage ==
    /\ pc = "scrape_loop"
    /\ visited < MaxPages
    /\ \E doc \in PageDocs :
          LET d2 == _extract_from_html(doc)
          IN  /\ ~DfEmpty(d2)
              /\ html' = doc
              /\ df' = df \o d2
    /\ visited' = visited + 1
    /\ UNCHANGED <<pc, th_texts, hi, out, trace, mirrors, since, whitelist, blacklist,
                   daily_agg, trend_agg, log>>

\* an iteration that ends in "if d2.empty: break"
ScrapeEmptyPage ==
    /\ pc = "scrape_loop"
    /\ visited < MaxPages
    /\ \E doc \in PageDocs :
          /\ DfEmpty(_extract_from_html(doc))
          /\ html' = doc
    /\ pc' = "scrape_close"
    /\ UNCHANGED <<th_texts, hi, out, trace, mirrors, df, visited, since, whitelist,
                   blacklist, daily_agg, trend_agg, log>>

\* an iteration that ends in "if not locs: break" or in "except Exception: break"
ScrapeNoNext ==
    /\ pc = "scrape_loop"
    /\ visited < MaxPages
    /\ pc' = "scrape_close"
    /\ UNCHANGED <<th_texts, hi, out, html, trace, mirrors, df, visited, since,
                   whitelist, blacklist, daily_agg, trend_agg, log>>

\* the loop condition fails
ScrapeMaxPages ==
    /\ pc = "scrape_loop"
    /\ visited >= MaxPages
    /\ pc' = "scrape_close"
    /\ UNCHANGED <<th_texts, hi, out, html, trace, mirrors, df, visited, since,
                   whitelist, blacklist, daily_agg, trend_agg, log>>

\* ctx.close(); b.close(); return df
ScrapeReturns ==
    /\ pc = "scrape_close"
    /\ log' = [log EXCEPT !.scrape = IF df = <<>> THEN "empty" ELSE "nonempty"]
    /\ pc' = "after_scrape"
    /\ UNCHANGED <<th_texts, hi, out, html, trace, mirrors, df, visited, since,
                   whitelist, blacklist, daily_agg, trend_agg>>

\* a statement of scrape_smartinsider outside its try block raises (the launch,
\* the first load, a locator query, a close): main's except gives df = pd.DataFrame()
ScrapeRaises ==
    /\ pc \in {"main", "scrape_loop", "scrape_close"}
    /\ df' = <<>>
    /\ log' = [log EXCEPT !.scrape = "raised"]
    /\ pc' = "after_scrape"
    /\ UNCHANGED <<th_texts, hi, out, html, trace, mirrors, visited, since, whitelist,
                   blacklist, daily_agg, trend_agg>>

MirrorPairs == {<<m, n>> : m \in Mirrors, n \in Mirrors}

\* "if df.empty: df = load_public_fallback()", the loader returning
MainFallbackReturns ==
    /\ pc = "after_scrape"
    /\ DfEmpty(df)
    /\ \E ms \in MirrorPairs :
          /\ ~FallbackRaises(ms)
          /\ mirrors' = ms
          /\ df' = load_public_fallback(ms)
    /\ log' = [log EXCEPT !.fallback_called = TRUE]
    /\ pc' = "check_data"
    /\ UNCHANGED <<th_texts, hi, out, html, trace, visited, since, whitelist,
                   blacklist, daily_agg, trend_agg>>

\* the loader raising: nothing in main catches it
MainFallbackRaises ==
    /\ pc = "after_scrape"
    /\ DfEmpty(df)
    /\ \E ms \in MirrorPairs :
          /\ FallbackRaises(ms)
          /\ mirrors' = ms
    /\ log' = [log EXCEPT !.fallback_called = TRUE]
    /\ pc' = "crashed"
    /\ UNCHANGED <<th_texts, hi, out, html, trace, df, visited, since, whitelist,
                   blacklist, daily_agg, trend_agg>>

\* "if df.empty" is false: the loader is not called
MainSkipFallback ==
    /\ pc = "after_scrape"
    /\ ~DfEmpty(df)
    /\ pc' = "check_data"
    /\ UNCHANGED <<th_texts, hi, out, html, trace, mirrors, df, visited, since,
                   whitelist, blacklist, daily_agg, trend_agg, log>>

\* if df.empty: raise SystemExit("No data available.")
MainNoData ==
    /\ pc = "check_data"
    /\ DfEmpty(df)
    /\ log' = [log EXCEPT !.exit_msg = "No data available."]
    /\ pc' = "exited"
    /\ UNCHANGED <<th_texts, hi, out, html, trace, mirrors, df, visited, since,
                   whitelist, blacklist, daily_agg, trend_agg>>

\* the two aggregations and render_md
MainAggregate ==
    /\ pc = "check_data"
    /\ ~DfEmpty(df)
    /\ daily_agg' = group_daily(df, since.daily, whitelist, blacklist)
    /\ trend_agg' = trend_30d(df, since.trend, whitelist, blacklist)
    /\ log' = [log EXCEPT !.aggregated = TRUE]
    /\ pc' = "write_report"
    /\ UNCHANGED <<th_texts, hi, out, html, trace, mirrors, df, visited, since,
                   whitelist, blacklist>>

\* the report file is written
MainWriteReport ==
    /\ pc = "write_report"
    /\ log' = [log EXCEPT !.report_written = TRUE]
    /\ pc' = "write_csv"
    /\ UNCHANGED <<th_texts, hi, out, html, trace, mirrors, df, visited, since,
                   whitelist, blacklist, daily_agg, trend_agg>>

\* the two CSV files are written
MainWriteCsv ==
    /\ pc = "write_csv"
    /\ log' = [log EXCEPT !.csv_written = TRUE]
    /\ pc' = "post"
    /\ UNCHANGED <<th_texts, hi, out, html, trace, mirrors, df, visited, since,
                   whitelist, blacklist, daily_agg, trend_agg>>

\* _post_webhook: "if not url: return", else the report is posted; print("Done.")
MainPostWebhook ==
    /\ pc = "post"
    /\ log' = [log EXCEPT !.posted = log.webhook]
    /\ pc' = "done"
    /\ UNCHANGED <<th_texts, hi, out, html, trace, mirrors, df, visited, since,
                   whitelist, blacklist, daily_agg, trend_agg>>

\* opening or writing a file, or a post's raise_for_status, raises
MainOutputRaises ==
    /\ pc \in {"write_report", "write_csv", "post"}
    /\ pc = "post" => log.webhook
    /\ pc' = "crashed"
    /\ UNCHANGED <<th_texts, hi, out, html, trace, mirrors, df, visited, since,
                   whitelist, blacklist, daily_agg, trend_agg, log>>

Next ==
    \/ ScrapeFirstPage
    \/ ScrapeNextPage
    \/ ScrapeEmptyPage
    \/ ScrapeNoNext
    \/ ScrapeMaxPages
    \/ ScrapeReturns
    \/ ScrapeRaises
    \/ MainFallbackReturns
    \/ MainFallbackRaises
    \/ MainSkipFallback
    \/ MainNoData
    \/ MainAggregate
    \/ MainWriteReport
    \/ MainWriteCsv
    \/ MainPostWebhook
    \/ MainOutputRaises

Init == InitMain

Spec == Init /\ [][Next]_vars

\* C5: the dataset scrape_smartinsider returns, and main works on, holds no
\* two records equal in all eight fields.
C5_NoDuplicateRecords ==
    (pc \notin {"main", "scrape_loop", "scrape_close"} /\ log.scrape # "raised") =>
        \A i, j \in 1..Len(df) : i # j => df[i] # df[j]

AfterFallbackDecision == pc \in {"check_data", "exited", "write_report", "write_csv",
                                  "post", "done"}

\* C10: the fallback loader is called exactly in the runs whose scrape raised
\* or returned an empty dataset; a run whose dataset is still empty after it
\* ends with "No data available." having aggregated, written and posted
\* nothing; aggregation, the report file, the CSV files and the post happen
\* only in runs whose dataset is non-empty, in that order.
C10_FallbackAndNoDataExit ==
    /\ pc \in {"main", "scrape_loop", "scrape_close", "after_scrape"}
          => ~log.fallback_called
    /\ (AfterFallbackDecision \/ (pc = "crashed" /\ log.scrape # "pending"))
          => (log.fallback_called <=> log.scrape \in {"raised", "empty"})
    /\ (AfterFallbackDecision /\ pc # "check_data" /\ df = <<>>)
          => (pc = "exited" /\ log.exit_msg = "No data available.")
    /\ (pc = "exited" \/ log.exit_msg # "")
          => /\ pc = "exited" /\ log.exit_msg = "No data available."
             /\ df = <<>>
             /\ ~log.aggregated /\ ~log.report_written
             /\ ~log.csv_written /\ ~log.posted
    /\ (log.aggregated \/ log.report_written \/ log.csv_written \/ log.posted)
          => (df # <<>> /\ log.exit_msg = "")
    /\ log.report_written => log.aggregated
    /\ log.csv_written => log.report_written
    /\ log.posted => (log.csv_written /\ log.webhook)
    /\ pc = "done" => (log.csv_written /\ (log.posted <=> log.webhook))

\* C10's case: a run whose scrape returned nothing, whose fallback was called
\* and returned nothing either, and which ended with the message
C10_Witness ==
    /\ pc = "exited"
    /\ log.scrape = "empty"
    /\ log.fallback_called
    /\ \E i \in 1..Len(mirrors) : mirrors[i].ok /\ mirrors[i].rows # <<>>

---------------------------------------------------------------------------
(* Header resolution run header by header *)

InitHeader ==
    /\ pc = "hdr_loop"
    /\ th_texts \in SeqsUpTo(HeaderTexts, MaxHeaders)
    /\ hi = 0
    /\ out = [k \in FieldSet |-> NotFound]
    /\ IdleExtract /\ IdleFallback /\ IdleScrape /\ IdleAgg /\ IdleMain

\* one iteration of "for i,t in enumerate(th)"
GuessHeaderStep ==
    /\ pc = "hdr_loop"
    /\ hi < Len(th_texts)
    /\ out' = FieldLoop(out, NormalizeHeader(th_texts[hi + 1]), hi)
    /\ hi' = hi + 1
    /\ UNCHANGED <<pc, th_texts, html, trace, mirrors, df, visited, since, whitelist,
                   blacklist, daily_agg, trend_agg, log>>

\* "return out"
GuessHeaderReturn ==
    /\ pc = "hdr_loop"
    /\ hi = Len(th_texts)
    /\ pc' = "hdr_done"
    /\ UNCHANGED <<th_texts, hi, out, html, trace, mirrors, df, visited, since, whitelist,
                   blacklist, daily_agg, trend_agg, log>>

NextHeader == GuessHeaderStep \/ GuessHeaderReturn

SpecHeader == InitHeader /\ [][NextHeader]_vars

\* the 0-based positions, among the first n headers, whose normalized text
\* contains an alias of field k
MatchingHeaders(k, texts, n) ==
    {i \in 0..(n - 1) : AnyKeyIn(k, NormalizeHeader(texts[i + 1]))}

SetMin(S) == CHOOSE x \in S : \A y \in S : x <= y

\* C3: at every point of the scan, each canonical field holds the index of the
\* leftmost header scanned so far whose normalized text contains one of its
\* aliases, or -1 when none does; at the return this is the leftmost of all.
C3_LeftmostMatch ==
    pc \in {"hdr_loop", "hdr_done"} =>
        /\ \A k \in FieldSet :
              LET M == MatchingHeaders(k, th_texts, hi)
              IN  out[k] = IF M = {} THEN NotFound ELSE SetMin(M)
        /\ pc = "hdr_done" => hi = Len(th_texts)

\* C3's case: the scan has returned, and a field with two matching headers
\* holds the left one
C3_Witness ==
    /\ pc = "hdr_done"
    /\ \E k \in FieldSet :
          /\ Cardinality(MatchingHeaders(k, th_texts, Len(th_texts))) >= 2
          /\ out[k] = SetMin(MatchingHeaders(k, th_texts, Len(th_texts)))
    /\ \E k \in FieldSet : out[k] = NotFound

===========================================================================
